---- MODULE Spec2Model ----
(***************************************************************************)
(* Model of train.py: the epoch driver (main), the per-batch training and  *)
(* evaluation loops (train_one_epoch, evaluate), the label ingestion of    *)
(* ArknightsDataset and the forward pass of UnitAwareTransformer.          *)
(*                                                                         *)
(* Real numbers are modelled exactly as normalised fractions <<n, d>>;     *)
(* <<1, 0>> is +infinity.  Non-finite tensors are flagged, not computed.   *)
(***************************************************************************)
EXTENDS Integers, Sequences, FiniteSets, TLC

(***************************************************************************)
(* Bounds of the model.                                                    *)
(***************************************************************************)
\* largest value of config["epochs"] explored
MaxEpochs == 2
\* config["batch_size"], scaled down
BatchSize == 2

\* sizes of the training partition explored: a single sample, one full
\* batch, one full batch and a trailing sample
TrainSizes == {1, BatchSize, BatchSize + 1}

\* sizes of the validation partition explored
ValSizes == {1, BatchSize}

\* finite per-batch loss values explored
LossVals == {0, 1}

\* gradient norms left by backward() explored, in units of max_norm
GradNorms == {0, 1, 2}

(***************************************************************************)
(* Program constants.                                                      *)
(***************************************************************************)
\* clip_grad_norm_(..., max_norm=1.0)
MaxNorm == 1
\* GradScaler(): init_scale = 2.0 ** 16
InitScaleExp == 16
\* GradScaler(): growth_interval = 2000
GrowthInterval == 2000

(***************************************************************************)
(* Exact arithmetic on fractions.                                          *)
(***************************************************************************)
RECURSIVE GCD(_, _)
GCD(a, b) == IF b = 0 THEN a ELSE GCD(b, a % b)

Max2(a, b) == IF a >= b THEN a ELSE b

\* the float n / d  (d > 0), in lowest terms
Rat(n, d) == LET g == GCD(n, d) IN IF g = 0 THEN <<0, 1>> ELSE <<n \div g, d \div g>>

PosInf == <<1, 0>>

\* a < b on floats (b may be +infinity)
RatLess(a, b) == a[1] * b[2] < b[1] * a[2]

RECURSIVE Pow2(_)
Pow2(e) == IF e <= 0 THEN 1 ELSE 2 * Pow2(e - 1)

(***************************************************************************)
(* State of the training run.                                              *)
(***************************************************************************)
VARIABLES
    phase,        \* position of main: Idle, TrainEpoch, EvalEpoch, CheckpointDecision, Done, Aborted
    pc,           \* position inside the current phase
    cfgEpochs,    \* config["epochs"]
    epoch,        \* loop variable of main's epoch loop (= epochs completed)
    trainN,       \* len(train_dataset)
    valN,         \* len(val_dataset)
    bi,           \* batches the current loader has yielded
    batch,        \* the batch bound by the loop: [size, input]
    loss,         \* loss of the current batch: [kind, val]
    outcome,      \* what the current iteration printed / did
    params,       \* version of model.parameters(); every optimizer step makes a new one
    grad,         \* .grad of the parameters: [st, finite, num, den]
    scaler,       \* GradScaler: [on, exp, tracker]
    total_loss,   \* locals of train_one_epoch / evaluate
    correct,
    total,
    kept,         \* samples of the batches of the current loop that were not skipped (observer)
    train_ret,    \* (train_loss, train_acc) returned to main
    val_ret,      \* (val_loss, val_acc) returned to main
    best_acc,
    best_loss,
    val_accs,     \* history lists of main
    val_losses,
    accSaved,     \* epoch (1-based) of the last best-by-accuracy write request, 0 = none
    lossSaved     \* epoch (1-based) of the last best-by-loss write request, 0 = none

runVars == <<phase, pc, cfgEpochs, epoch, trainN, valN, bi, batch, loss, outcome,
             params, grad, scaler, total_loss, correct, total, kept, train_ret, val_ret,
             best_acc, best_loss, val_accs, val_losses, accSaved, lossSaved>>

(***************************************************************************)
(* State of the ingestion (preprocess_data, ArknightsDataset).             *)
(***************************************************************************)
VARIABLES
    csv,            \* the data rows of the file: [feats, label]
    ipc,            \* position of the ingestion: file, checked, loaded
    num_data,       \* data.shape[1] returned by preprocess_data
    invalid_labels, \* the count preprocess_data prints
    dataset,        \* the samples of ArknightsDataset
    fetched         \* the last sample handed out by __getitem__: [idx, item]

ingestVars == <<csv, ipc, num_data, invalid_labels, dataset, fetched>>

(***************************************************************************)
(* State of one call of the model (UnitAwareTransformer.forward).          *)
(***************************************************************************)
VARIABLES
    attn_empty,     \* what softmax over an all-masked key set yields in this build
    topk_ties,      \* which of equal counts torch.topk returns first in this build
    weights,        \* which parameter values the model holds
    lc,             \* left_count of the sample
    rc,             \* right_count of the sample
    fpc,            \* position: forward, swapped, compared
    out,            \* what forward computed for (lc, rc)
    out_swapped     \* what forward computed for (rc, lc)

fwdVars == <<attn_empty, topk_ties, weights, lc, rc, fpc, out, out_swapped>>

vars == <<runVars, ingestVars, fwdVars>>

InputKinds == {"ok", "nan", "inf"}

LossKinds == {"finite", "nan", "inf"}

NoBatch == [size |-> 0, input |-> "ok"]

NoLoss == [kind |-> "none", val |-> 0]

ZeroGrad == [st |-> "zero", finite |-> TRUE, num |-> 0, den |-> 1]

NoRet == [loss |-> <<0, 1>>, acc |-> <<0, 1>>]

\* len(loader) of a DataLoader over n samples (drop_last is False)
NumBatches(n) == (n + BatchSize - 1) \div BatchSize

\* number of samples in the i-th batch (1-based) of a loader over n samples
SizeOfBatch(n, i) == IF i * BatchSize <= n THEN BatchSize ELSE n - (i - 1) * BatchSize

\* model(...).squeeze() drops the batch dimension of a one-sample batch, and
\* BCEWithLogitsLoss then rejects input [] against target [1] with a ValueError
SqueezeBreaksLoss(size) == size = 1

InitRun ==
    /\ phase = "Idle"
    /\ pc = "start"
    /\ cfgEpochs \in 0..MaxEpochs
    /\ epoch = 0
    /\ trainN \in TrainSizes
    /\ valN \in ValSizes
    /\ bi = 0
    /\ batch = NoBatch
    /\ loss = NoLoss
    /\ outcome = "none"
    /\ params = 0
    /\ grad = ZeroGrad
    /\ scaler \in {[on |-> b, exp |-> InitScaleExp, tracker |-> 0] : b \in BOOLEAN}
    /\ total_loss = 0
    /\ correct = 0
    /\ total = 0
    /\ kept = 0
    /\ train_ret = NoRet
    /\ val_ret = NoRet
    /\ best_acc = <<0, 1>>
    /\ best_loss = PosInf
    /\ val_accs = <<>>
    /\ val_losses = <<>>
    /\ accSaved = 0
    /\ lossSaved = 0


(***************************************************************************)
(* Ingestion: preprocess_data and ArknightsDataset.                        *)
(***************************************************************************)
\* most data rows of a file explored
MaxRows == 2

\* config["max_feature_value"]
MaxFeatureValue == 100

\* raw feature rows explored (2 * 5 columns; the first is the scenario of the
\* specification, the second has values beyond the clip value)
FeatureRows ==
    { <<3, 0, -2, 0, 0, 0, 4, 0, 1, 0>>,
      <<150, 0, 0, -1, 0, 0, 0, -250, 0, 0>>,
      <<0, 0, 0, 0, 0, 2, 2, 2, 2, 0>> }

\* texts found in the label column
LabelTexts == {"L", "R", "X"}

CsvRows == [feats : FeatureRows, label : LabelTexts]

\* a float that is a number or NaN
Num(v) == [nan |-> FALSE, v |-> v]

NaN == [nan |-> TRUE, v |-> 0]

\* a != b on floats: NaN differs from everything
FloatNe(a, b) == a.nan \/ b.nan \/ a.v # b.v

Abs(x) == IF x < 0 THEN 0 - x ELSE x

Sign(x) == IF x < 0 THEN 0 - 1 ELSE IF x > 0 THEN 1 ELSE 0

\* np.clip(x, 0, max_value)
Clip(x, hi) == IF x < 0 THEN 0 ELSE IF x > hi THEN hi ELSE x

\* labels.map({"L": 0, "R": 1}): a text that is no key maps to NaN
MapLabel(text) ==
    IF text = "L" THEN Num(0) ELSE IF text = "R" THEN Num(1) ELSE NaN

\* np.where((labels != 0) & (labels != 1), 0, labels)
CoerceLabel(l) == IF FloatNe(l, Num(0)) /\ FloatNe(l, Num(1)) THEN Num(0) ELSE l

\* one sample of ArknightsDataset built from one data row
ParseRow(row, max_value) ==
    LET feature_count == Len(row.feats)
        midpoint == feature_count \div 2
        left == SubSeq(row.feats, 1, midpoint)
        right == SubSeq(row.feats, midpoint + 1, feature_count)
    IN [left_signs |-> [i \in 1..Len(left) |-> Sign(left[i])],
        left_counts |-> [i \in 1..Len(left) |-> Clip(Abs(left[i]), max_value)],
        right_signs |-> [i \in 1..Len(right) |-> Sign(right[i])],
        right_counts |-> [i \in 1..Len(right) |-> Clip(Abs(right[i]), max_value)],
        label |-> CoerceLabel(MapLabel(row.label))]

NoItem == [idx |-> 0, item |-> ParseRow([feats |-> <<0, 0>>, label |-> "L"], MaxFeatureValue)]

InitIngest ==
    /\ csv \in UNION {[1..n -> CsvRows] : n \in 1..MaxRows}
    /\ ipc = "file"
    /\ num_data = 0
    /\ invalid_labels = 0
    /\ dataset = <<>>
    /\ fetched = NoItem

\* the ingestion is not part of the run explored
IdleIngest ==
    /\ csv = <<>>
    /\ ipc = "loaded"
    /\ num_data = 0
    /\ invalid_labels = 0
    /\ dataset = <<>>
    /\ fetched = NoItem

\* preprocess_data: reports the number of invalid labels and returns the
\* number of columns; it raises nothing
Preprocess ==
    /\ ipc = "file"
    /\ invalid_labels' = Cardinality({i \in 1..Len(csv) : csv[i].label \notin {"L", "R"}})
    /\ num_data' = Len(csv[1].feats) + 1
    /\ ipc' = "checked"
    /\ UNCHANGED <<csv, dataset, fetched>>

\* ArknightsDataset(csv_file, max_value=config["max_feature_value"])
LoadDataset ==
    /\ ipc = "checked"
    /\ dataset' = [i \in 1..Len(csv) |-> ParseRow(csv[i], MaxFeatureValue)]
    /\ ipc' = "loaded"
    /\ UNCHANGED <<csv, num_data, invalid_labels, fetched>>

\* __getitem__(idx), as called by the loaders of the training loop
GetItem ==
    /\ ipc = "loaded"
    /\ \E idx \in 1..Len(dataset) : fetched' = [idx |-> idx, item |-> dataset[idx]]
    /\ UNCHANGED <<csv, ipc, num_data, invalid_labels, dataset>>

(***************************************************************************)
(* The model: UnitAwareTransformer.forward, computed on integers.          *)
(*                                                                         *)
(* Counts are held in tenths (20 is the count 2.0).  The network is scaled *)
(* down: embed_dim = EmbedDim, one attention head per dimension (head      *)
(* dimension 1, so the 1/sqrt(d) scaling of the scores is 1), hidden       *)
(* layers of width 2 * embed_dim as in the code, NumLayers blocks.  The    *)
(* weights are fixed small integers.  exp() of the softmax is replaced by  *)
(* the positive non-decreasing ExpI and the division by the floor          *)
(* division.  Dropout is off.                                              *)
(***************************************************************************)
\* number of unit types per side, (num_data - 1) // 2
NumUnits == 3
\* config["embed_dim"], scaled down
EmbedDim == 2
\* config["n_layers"], scaled down
NumLayers == 1
\* largest exponent of the softmax weights
ExpCap == 3

\* torch.topk(..., k=3, dim=1)
TopK == 3
\* left_mask = left_values > 0.1, in tenths
MaskThreshold == 1

\* counts explored, in tenths: 0, 0.1 (not above the threshold), 2.0, 3.0
CountValues == {0, 1, 20, 30}

Units == 1..NumUnits

CountVectors == [Units -> CountValues]

\* the sequence f[1], ..., f[n], every element computed once
Tab(f, n) == SubSeq(f, 1, n)

\* a fixed weight matrix / bias vector with entries in -1..1
Mat(rows, cols, seed) ==
    Tab([i \in 1..rows |->
           Tab([j \in 1..cols |-> ((3 * i + 5 * j + i * j * seed + seed) % 3) - 1], cols)],
        rows)

Vec(n, seed) == Tab([i \in 1..n |-> ((i + seed) % 3) - 1], n)

\* self.unit_embed.weight[u]
Embedding(w, u) ==
    Tab([d \in 1..EmbedDim |-> ((u * d + w + u) % 3) - 1 + (IF d = EmbedDim THEN 1 ELSE 0)],
        EmbedDim)

\* a Sequential(Linear(D, 2D), ReLU, [Dropout,] Linear(2D, out))
FfnWeights(seed, outDim) ==
    [W1 |-> Mat(2 * EmbedDim, EmbedDim, seed), b1 |-> Vec(2 * EmbedDim, seed),
     W2 |-> Mat(outDim, 2 * EmbedDim, seed + 1), b2 |-> Vec(outDim, seed + 2)]

\* a MultiheadAttention: in_proj (q, k, v) and out_proj
AttnWeights(seed) ==
    [Wq |-> Mat(EmbedDim, EmbedDim, seed), bq |-> Vec(EmbedDim, seed),
     Wk |-> Mat(EmbedDim, EmbedDim, seed + 1), bk |-> Vec(EmbedDim, seed + 1),
     Wv |-> Mat(EmbedDim, EmbedDim, seed + 2), bv |-> Vec(EmbedDim, seed + 2),
     Wo |-> Mat(EmbedDim, EmbedDim, seed + 3), bo |-> Vec(EmbedDim, seed + 3)]

\* the parameters of the model for weight choice w
ModelParams(w) ==
    [value_ffn |-> FfnWeights(w, EmbedDim),
     enemy_attentions |-> Tab([i \in 1..NumLayers |-> AttnWeights(w + 4 * i)], NumLayers),
     enemy_ffn |-> Tab([i \in 1..NumLayers |-> FfnWeights(w + 4 * i + 1, EmbedDim)], NumLayers),
     friend_attentions |-> Tab([i \in 1..NumLayers |-> AttnWeights(w + 4 * i + 2)], NumLayers),
     friend_ffn |-> Tab([i \in 1..NumLayers |-> FfnWeights(w + 4 * i + 3, EmbedDim)], NumLayers),
     fc |-> FfnWeights(w + 2, 1)]

\* the parameter sets explored: what model.load_state_dict can have loaded
StateDict == <<ModelParams(1), ModelParams(2)>>

WeightChoices == 1..Len(StateDict)

RECURSIVE SumTo(_, _)
\* f[1] + ... + f[n]
SumTo(f, n) == IF n = 0 THEN 0 ELSE f[n] + SumTo(f, n - 1)

Dot(a, b) == SumTo(Tab([i \in 1..Len(a) |-> a[i] * b[i]], Len(a)), Len(a))

Linear(W, b, x) == Tab([i \in 1..Len(W) |-> Dot(W[i], x) + b[i]], Len(W))

Relu(x) == Tab([i \in 1..Len(x) |-> IF x[i] > 0 THEN x[i] ELSE 0], Len(x))

VecAdd(x, y) == Tab([i \in 1..Len(x) |-> x[i] + y[i]], Len(x))

Ffn(p, x) == Linear(p.W2, p.b2, Relu(Linear(p.W1, p.b1, x)))

\* the features of one side: TopK vectors, or NaN throughout
NaNSide == [nan |-> TRUE, x |-> <<>>]

\* x + sublayer(x) on every slot of a side
Residual(sd, delta) ==
    IF sd.nan \/ delta.nan THEN NaNSide
    ELSE [nan |-> FALSE, x |-> Tab([i \in 1..TopK |-> VecAdd(sd.x[i], delta.x[i])], TopK)]

FfnSide(p, sd) ==
    IF sd.nan THEN NaNSide
    ELSE [nan |-> FALSE, x |-> Tab([i \in 1..TopK |-> Ffn(p, sd.x[i])], TopK)]

\* the unit torch.topk takes next: a largest count among those not yet
\* taken; which of several equal counts comes first depends on the build
BestUnit(count, taken) ==
    LET rest == Units \ taken
        top == {u \in rest : \A o \in rest : count[o] <= count[u]}
    IN IF topk_ties = "low"
       THEN CHOOSE u \in top : \A o \in top : u <= o
       ELSE CHOOSE u \in top : \A o \in top : u >= o

RECURSIVE TopKIndices(_, _)
\* indices of torch.topk(count, k=3), largest count first
TopKIndices(count, sofar) ==
    IF Len(sofar) = TopK THEN sofar
    ELSE TopKIndices(count, Append(sofar, BestUnit(count, {sofar[i] : i \in 1..Len(sofar)})))

\* left_mask = left_values > 0.1
SlotMask(values) == Tab([i \in 1..TopK |-> values[i] > MaskThreshold], TopK)

\* self.unit_embed(indices), second half of every vector multiplied by the count
EmbedSide(w, indices, values) ==
    [nan |-> FALSE,
     x |-> Tab([i \in 1..TopK |->
                  Tab([d \in 1..EmbedDim |->
                         IF d <= EmbedDim \div 2
                         THEN Embedding(w, indices[i])[d]
                         ELSE Embedding(w, indices[i])[d] * values[i]], EmbedDim)], TopK)]

\* stand-in for exp(score): positive and non-decreasing
ExpI(sc) == IF sc <= 0 THEN 1 ELSE IF sc >= ExpCap THEN Pow2(ExpCap) ELSE Pow2(sc)

\* one head (dimension h) of the attention of query vector q over the keys
\* that are not padded
HeadOut(q, ks, vs, kmask, h) ==
    LET wgt == Tab([j \in 1..TopK |-> IF kmask[j] THEN ExpI(q[h] * ks[j][h]) ELSE 0], TopK)
        num == SumTo(Tab([j \in 1..TopK |-> wgt[j] * vs[j][h]], TopK), TopK)
        den == SumTo(wgt, TopK)
    IN num \div den

\* MultiheadAttention(query=qs, key=kv, value=kv, key_padding_mask=~kmask)
Attention(p, qs, kv, kmask) ==
    IF qs.nan \/ kv.nan THEN NaNSide
    ELSE IF \A j \in 1..TopK : ~kmask[j]
    THEN IF attn_empty = "nan" THEN NaNSide
         ELSE [nan |-> FALSE,
               x |-> Tab([i \in 1..TopK |-> Linear(p.Wo, p.bo, [h \in 1..EmbedDim |-> 0])],
                         TopK)]
    ELSE LET ks == Tab([j \in 1..TopK |-> Linear(p.Wk, p.bk, kv.x[j])], TopK)
             vs == Tab([j \in 1..TopK |-> Linear(p.Wv, p.bv, kv.x[j])], TopK)
         IN [nan |-> FALSE,
             x |-> Tab([i \in 1..TopK |->
                          LET q == Linear(p.Wq, p.bq, qs.x[i])
                          IN Linear(p.Wo, p.bo,
                                    Tab([h \in 1..EmbedDim |-> HeadOut(q, ks, vs, kmask, h)],
                                        EmbedDim))], TopK)]

RECURSIVE Blocks(_, _, _, _, _, _)
\* the blocks i..NumLayers of the stack: enemy attention, FFN, friend
\* attention, FFN, each with its residual connection; returns <<left, right>>
Blocks(P, i, left, right, left_mask, right_mask) ==
    IF i > NumLayers THEN <<left, right>>
    ELSE LET l1 == Residual(left, Attention(P.enemy_attentions[i], left, right, right_mask))
             r1 == Residual(right, Attention(P.enemy_attentions[i], right, left, left_mask))
             l2 == Residual(l1, FfnSide(P.enemy_ffn[i], l1))
             r2 == Residual(r1, FfnSide(P.enemy_ffn[i], r1))
             l3 == Residual(l2, Attention(P.friend_attentions[i], l2, l2, left_mask))
             r3 == Residual(r2, Attention(P.friend_attentions[i], r2, r2, right_mask))
             l4 == Residual(l3, FfnSide(P.friend_ffn[i], l3))
             r4 == Residual(r3, FfnSide(P.friend_ffn[i], r3))
         IN Blocks(P, i + 1, l4, r4, left_mask, right_mask)

\* self.fc(feat).squeeze(-1): one score per slot
FcScores(p, sd) ==
    Tab([i \in 1..TopK |-> IF sd.nan THEN NaN ELSE Num(Ffn(p, sd.x[i])[1])], TopK)

\* score * mask on floats: NaN * 0 is NaN
MaskedScore(score, m) == IF score.nan THEN NaN ELSE IF m THEN score ELSE Num(0)

\* x.sum(1) on floats
FloatSum(f) ==
    IF \E i \in 1..TopK : f[i].nan THEN NaN
    ELSE Num(SumTo(Tab([i \in 1..TopK |-> f[i].v], TopK), TopK))

FloatSub(a, b) == IF a.nan \/ b.nan THEN NaN ELSE Num(a.v - b.v)

FloatNeg(a) == IF a.nan THEN NaN ELSE Num(0 - a.v)

\* forward(left_sign, left_count, right_sign, right_count) with the weights
\* of choice w; the sign arrays are not read by forward
Forward(w, left_count, right_count) ==
    LET P == StateDict[w]
        left_indices == TopKIndices(left_count, <<>>)
        right_indices == TopKIndices(right_count, <<>>)
        left_values == Tab([i \in 1..TopK |-> left_count[left_indices[i]]], TopK)
        right_values == Tab([i \in 1..TopK |-> right_count[right_indices[i]]], TopK)
        left_emb == EmbedSide(w, left_indices, left_values)
        right_emb == EmbedSide(w, right_indices, right_values)
        left_feat == Residual(left_emb, FfnSide(P.value_ffn, left_emb))
        right_feat == Residual(right_emb, FfnSide(P.value_ffn, right_emb))
        left_mask == SlotMask(left_values)
        right_mask == SlotMask(right_values)
        fin == Blocks(P, 1, left_feat, right_feat, left_mask, right_mask)
        fcL == FcScores(P.fc, fin[1])
        fcR == FcScores(P.fc, fin[2])
        L == Tab([i \in 1..TopK |-> MaskedScore(fcL[i], left_mask[i])], TopK)
        R == Tab([i \in 1..TopK |-> MaskedScore(fcR[i], right_mask[i])], TopK)
    IN [left_values |-> left_values, left_indices |-> left_indices,
        left_mask |-> left_mask,
        right_values |-> right_values, right_indices |-> right_indices,
        right_mask |-> right_mask,
        fcL |-> fcL, fcR |-> fcR, L |-> L, R |-> R,
        output_logits |-> FloatSub(FloatSum(R), FloatSum(L))]

NoOutput == [done |-> FALSE]

InitForward ==
    /\ attn_empty \in {"nan", "zero"}
    /\ topk_ties \in {"low", "high"}
    /\ weights \in WeightChoices
    /\ lc \in CountVectors
    /\ rc \in CountVectors
    /\ fpc = "forward"
    /\ out = NoOutput
    /\ out_swapped = NoOutput

\* the model is not called in the run explored
IdleForward ==
    /\ attn_empty = "nan"
    /\ topk_ties = "low"
    /\ weights = 1
    /\ lc = [u \in Units |-> 0]
    /\ rc = [u \in Units |-> 0]
    /\ fpc = "compared"
    /\ out = NoOutput
    /\ out_swapped = NoOutput

\* model(ls, lc, rs, rc) in eval mode
RunForward ==
    /\ fpc = "forward"
    /\ out' = [done |-> TRUE, r |-> Forward(weights, lc, rc)]
    /\ fpc' = "swapped"
    /\ UNCHANGED <<attn_empty, topk_ties, weights, lc, rc, out_swapped>>

\* model(rs, rc, ls, lc) in eval mode, the same parameters
RunSwapped ==
    /\ fpc = "swapped"
    /\ out_swapped' = [done |-> TRUE, r |-> Forward(weights, rc, lc)]
    /\ fpc' = "compared"
    /\ UNCHANGED <<attn_empty, topk_ties, weights, lc, rc, out>>

\* what no step of the training run changes
cfgVars == <<cfgEpochs, trainN, valN, ingestVars, fwdVars>>

totVars == <<total_loss, correct, total, kept>>

bestVars == <<best_acc, best_loss, val_accs, val_losses, accSaved, lossSaved>>

retVars == <<train_ret, val_ret>>

(***************************************************************************)
(* main: entering the epoch loop.                                          *)
(***************************************************************************)
\* mutant of LoopHead: the loop runs one epoch too many
LoopHead_OffByOne(e) ==
    /\ train_ret' = NoRet
    /\ val_ret' = NoRet
    /\ IF e <= cfgEpochs
       THEN /\ phase' = "TrainEpoch"
            /\ pc' = "enter"
       ELSE /\ phase' = "Done"
            /\ pc' = "end"

\* for epoch in range(config["epochs"]): the loop head, taken from Idle and
\* again after every checkpoint decision; the metrics of the finished epoch
\* are not read again
LoopHead(e) ==
    /\ train_ret' = NoRet
    /\ val_ret' = NoRet
    /\ IF e < cfgEpochs
       THEN /\ phase' = "TrainEpoch"
            /\ pc' = "enter"
       ELSE /\ phase' = "Done"
            /\ pc' = "end"

Start ==
    /\ phase = "Idle"
    /\ LoopHead(epoch)
    /\ UNCHANGED <<cfgVars, epoch, bi, batch, loss, outcome, params, grad, scaler,
                   totVars, bestVars>>

(***************************************************************************)
(* train_one_epoch.                                                        *)
(***************************************************************************)
\* `continue`: the rest of the iteration is dropped
Continue(why) ==
    /\ pc' = "fetch"
    /\ outcome' = why

TrainEnter ==
    /\ phase = "TrainEpoch" /\ pc = "enter"
    /\ total_loss' = 0 /\ correct' = 0 /\ total' = 0 /\ kept' = 0
    /\ bi' = 0
    /\ batch' = NoBatch /\ loss' = NoLoss /\ outcome' = "none"
    /\ pc' = "fetch"
    /\ UNCHANGED <<phase, cfgVars, epoch, params, grad, scaler, retVars, bestVars>>

\* the loader yields the next batch; optimizer.zero_grad()
TrainFetch ==
    /\ phase = "TrainEpoch" /\ pc = "fetch"
    /\ bi < NumBatches(trainN)
    /\ bi' = bi + 1
    /\ \E k \in InputKinds :
          batch' = [size |-> SizeOfBatch(trainN, bi + 1), input |-> k]
    /\ loss' = NoLoss
    /\ outcome' = "none"
    /\ grad' = ZeroGrad
    /\ pc' = "validate"
    /\ UNCHANGED <<phase, cfgVars, epoch, params, scaler, totVars, retVars, bestVars>>

\* mutant of TrainValidate: the Inf check is missing
TrainValidate_NoInfCheck ==
    /\ phase = "TrainEpoch" /\ pc = "validate"
    /\ IF batch.input = "nan" THEN Continue("skip_nan")
       ELSE pc' = "forward" /\ outcome' = outcome
    /\ UNCHANGED <<phase, cfgVars, epoch, bi, batch, loss, params, grad, scaler,
                   totVars, retVars, bestVars>>

\* the NaN check, the Inf check and the label clamp (labels of the dataset
\* are 0.0 or 1.0, so the clamp changes nothing)
TrainValidate ==
    /\ phase = "TrainEpoch" /\ pc = "validate"
    /\ IF batch.input = "nan" THEN Continue("skip_nan")
       ELSE IF batch.input = "inf" THEN Continue("skip_inf")
       ELSE pc' = "forward" /\ outcome' = outcome
    /\ UNCHANGED <<phase, cfgVars, epoch, bi, batch, loss, params, grad, scaler,
                   totVars, retVars, bestVars>>

\* outputs = model(...).squeeze(); loss = criterion(outputs, labels)
TrainForward ==
    /\ phase = "TrainEpoch" /\ pc = "forward"
    /\ \/ /\ Continue("skip_error")                     \* RuntimeError, caught
          /\ UNCHANGED <<phase, loss>>
       \/ /\ SqueezeBreaksLoss(batch.size)             \* ValueError, not caught
          /\ phase' = "Aborted"
          /\ pc' = "train:ValueError"
          /\ UNCHANGED <<loss, outcome>>
       \/ /\ ~SqueezeBreaksLoss(batch.size)
          /\ \E k \in LossKinds, v \in LossVals :
                /\ (k # "finite" => v = 0)
                /\ loss' = [kind |-> k, val |-> v]
          /\ pc' = "losscheck"
          /\ UNCHANGED <<phase, outcome>>
    /\ UNCHANGED <<cfgVars, epoch, bi, batch, params, grad, scaler, totVars, retVars,
                   bestVars>>

\* mutant of TrainLossCheck: only NaN is checked
TrainLossCheck_NanOnly ==
    /\ phase = "TrainEpoch" /\ pc = "losscheck"
    /\ IF loss.kind = "nan" THEN Continue("skip_loss")
       ELSE pc' = "backward" /\ outcome' = outcome
    /\ UNCHANGED <<phase, cfgVars, epoch, bi, batch, loss, params, grad, scaler,
                   totVars, retVars, bestVars>>

\* if torch.isnan(loss) or torch.isinf(loss): continue
TrainLossCheck ==
    /\ phase = "TrainEpoch" /\ pc = "losscheck"
    /\ IF loss.kind # "finite" THEN Continue("skip_loss")
       ELSE pc' = "backward" /\ outcome' = outcome
    /\ UNCHANGED <<phase, cfgVars, epoch, bi, batch, loss, params, grad, scaler,
                   totVars, retVars, bestVars>>

\* the gradient left by backward(): norm g, multiplied by the loss scale
\* under mixed precision
BackwardGrad(g, sc) ==
    IF sc.on
    THEN IF sc.exp >= 0
         THEN [st |-> "raw", finite |-> TRUE, num |-> g * Pow2(sc.exp), den |-> 1]
         ELSE [st |-> "raw", finite |-> TRUE, num |-> g, den |-> Pow2(0 - sc.exp)]
    ELSE [st |-> "raw", finite |-> TRUE, num |-> g, den |-> 1]

\* scaled half-precision gradients that overflowed
OverflowGrad == [st |-> "raw", finite |-> FALSE, num |-> 0, den |-> 1]

\* scaler.scale(loss).backward() / loss.backward()
TrainBackward ==
    /\ phase = "TrainEpoch" /\ pc = "backward"
    /\ \/ /\ Continue("skip_error")
          /\ UNCHANGED grad
       \/ /\ \E g \in GradNorms : grad' = BackwardGrad(g, scaler)
          /\ pc' = "clip"
          /\ UNCHANGED outcome
       \/ /\ scaler.on
          /\ grad' = OverflowGrad
          /\ pc' = "clip"
          /\ UNCHANGED outcome
    /\ UNCHANGED <<phase, cfgVars, epoch, bi, batch, loss, params, scaler, totVars,
                   retVars, bestVars>>

\* mutant of ClipGradNorm: the gradients are left as they are
ClipGradNorm_Identity(g) == [g EXCEPT !.st = "clipped"]

\* torch.nn.utils.clip_grad_norm_(model.parameters(), max_norm=1.0):
\* gradients are multiplied by min(1, max_norm / norm); a non-finite norm
\* leaves non-finite gradients
ClipGradNorm(g) ==
    IF ~g.finite THEN [g EXCEPT !.st = "clipped"]
    ELSE IF g.num > MaxNorm * g.den
         THEN [st |-> "clipped", finite |-> TRUE, num |-> MaxNorm, den |-> 1]
         ELSE [g EXCEPT !.st = "clipped"]

TrainClip ==
    /\ phase = "TrainEpoch" /\ pc = "clip"
    /\ \/ /\ Continue("skip_error")
          /\ UNCHANGED grad
       \/ /\ grad' = ClipGradNorm(grad)
          /\ pc' = "step"
          /\ UNCHANGED outcome
    /\ UNCHANGED <<phase, cfgVars, epoch, bi, batch, loss, params, scaler, totVars,
                   retVars, bestVars>>

\* scaler.step unscales the gradients (divides them by the loss scale)
Unscale(g, sc) ==
    IF sc.exp >= 0
    THEN LET r == Rat(g.num, g.den * Pow2(sc.exp))
         IN [g EXCEPT !.num = r[1], !.den = r[2]]
    ELSE LET r == Rat(g.num * Pow2(0 - sc.exp), g.den)
         IN [g EXCEPT !.num = r[1], !.den = r[2]]

\* scaler.update(): back off on overflow, grow after growth_interval clean steps
ScalerUpdate(sc, found_inf) ==
    IF found_inf
    THEN [sc EXCEPT !.exp = sc.exp - 1, !.tracker = 0]
    ELSE IF sc.tracker + 1 = GrowthInterval
         THEN [sc EXCEPT !.exp = sc.exp + 1, !.tracker = 0]
         ELSE [sc EXCEPT !.tracker = sc.tracker + 1]

\* scaler.step(optimizer); scaler.update()  /  optimizer.step()
TrainStep ==
    /\ phase = "TrainEpoch" /\ pc = "step"
    /\ \/ /\ Continue("skip_error")
          /\ UNCHANGED <<params, grad, scaler>>
       \/ /\ scaler.on
          /\ IF grad.finite
             THEN /\ grad' = Unscale(grad, scaler)
                  /\ params' = params + 1
             ELSE UNCHANGED <<params, grad>>              \* the step is skipped
          /\ scaler' = ScalerUpdate(scaler, ~grad.finite)
          /\ pc' = "accum"
          /\ UNCHANGED outcome
       \/ /\ ~scaler.on
          /\ params' = params + 1
          /\ pc' = "accum"
          /\ UNCHANGED <<grad, scaler, outcome>>
    /\ UNCHANGED <<phase, cfgVars, epoch, bi, batch, loss, totVars, retVars, bestVars>>

\* total_loss += loss.item(); correct += (preds == labels).sum().item();
\* total += labels.size(0).  The three statements stand inside the try block:
\* a RuntimeError of loss.item() leaves the totals as they were, one of the
\* sigmoid, the comparison or the second .item() leaves total_loss already
\* incremented; either way the handler continues with the next batch.
TrainAccum ==
    /\ phase = "TrainEpoch" /\ pc = "accum"
    /\ \/ /\ total_loss' = total_loss + loss.val
          /\ \E c \in 0..batch.size : correct' = correct + c
          /\ total' = total + batch.size
          /\ kept' = kept + batch.size
          /\ Continue("trained")
       \/ /\ Continue("skip_error")
          /\ UNCHANGED totVars
       \/ /\ total_loss' = total_loss + loss.val
          /\ UNCHANGED <<correct, total, kept>>
          /\ Continue("skip_error")
    /\ UNCHANGED <<phase, cfgVars, epoch, bi, batch, loss, params, grad, scaler,
                   retVars, bestVars>>

\* (mean loss, accuracy) of an epoch
Metrics(tl, c, t, n) ==
    [loss |-> Rat(tl, Max2(1, NumBatches(n))), acc |-> Rat(100 * c, Max2(1, t))]

\* the locals of train_one_epoch / evaluate end with the call
LeaveLoop ==
    /\ total_loss' = 0 /\ correct' = 0 /\ total' = 0 /\ kept' = 0
    /\ bi' = 0
    /\ batch' = NoBatch /\ loss' = NoLoss /\ outcome' = "none"

\* the loader is exhausted: return to main, which calls evaluate.  The
\* gradients left in .grad are read by nothing before the zero_grad() of the
\* next training iteration, so they are not carried through evaluate.
TrainReturn ==
    /\ phase = "TrainEpoch" /\ pc = "fetch"
    /\ bi = NumBatches(trainN)
    /\ train_ret' = Metrics(total_loss, correct, total, trainN)
    /\ LeaveLoop
    /\ grad' = ZeroGrad
    /\ phase' = "EvalEpoch"
    /\ pc' = "enter"
    /\ UNCHANGED <<cfgVars, epoch, params, scaler, val_ret, bestVars>>


(***************************************************************************)
(* evaluate.                                                               *)
(***************************************************************************)
EvalEnter ==
    /\ phase = "EvalEpoch" /\ pc = "enter"
    /\ total_loss' = 0 /\ correct' = 0 /\ total' = 0 /\ kept' = 0
    /\ bi' = 0
    /\ batch' = NoBatch /\ loss' = NoLoss /\ outcome' = "none"
    /\ pc' = "fetch"
    /\ UNCHANGED <<phase, cfgVars, epoch, params, grad, scaler, retVars, bestVars>>

EvalFetch ==
    /\ phase = "EvalEpoch" /\ pc = "fetch"
    /\ bi < NumBatches(valN)
    /\ bi' = bi + 1
    /\ \E k \in InputKinds :
          batch' = [size |-> SizeOfBatch(valN, bi + 1), input |-> k]
    /\ loss' = NoLoss
    /\ outcome' = "none"
    /\ pc' = "validate"
    /\ UNCHANGED <<phase, cfgVars, epoch, params, grad, scaler, totVars, retVars,
                   bestVars>>

EvalValidate ==
    /\ phase = "EvalEpoch" /\ pc = "validate"
    /\ IF batch.input # "ok" THEN Continue("skip_input")
       ELSE pc' = "forward" /\ outcome' = outcome
    /\ UNCHANGED <<phase, cfgVars, epoch, bi, batch, loss, params, grad, scaler,
                   totVars, retVars, bestVars>>

EvalForward ==
    /\ phase = "EvalEpoch" /\ pc = "forward"
    /\ \/ /\ Continue("skip_error")
          /\ UNCHANGED <<phase, loss>>
       \/ /\ SqueezeBreaksLoss(batch.size)
          /\ phase' = "Aborted"
          /\ pc' = "eval:ValueError"
          /\ UNCHANGED <<loss, outcome>>
       \/ /\ ~SqueezeBreaksLoss(batch.size)
          /\ \E k \in LossKinds, v \in LossVals :
                /\ (k # "finite" => v = 0)
                /\ loss' = [kind |-> k, val |-> v]
          /\ pc' = "accum"
          /\ UNCHANGED <<phase, outcome>>
    /\ UNCHANGED <<cfgVars, epoch, bi, batch, params, grad, scaler, totVars, retVars,
                   bestVars>>

\* mutant of EvalAccum: evaluate takes an optimizer step
EvalAccum_Steps ==
    /\ phase = "EvalEpoch" /\ pc = "accum"
    /\ IF loss.kind # "finite"
       THEN /\ Continue("skip_loss")
            /\ UNCHANGED <<totVars, params>>
       ELSE \/ /\ total_loss' = total_loss + loss.val
               /\ \E c \in 0..batch.size : correct' = correct + c
               /\ total' = total + batch.size
               /\ kept' = kept + batch.size
               /\ params' = params + 1
               /\ Continue("evaluated")
            \/ /\ Continue("skip_error")
               /\ UNCHANGED <<totVars, params>>
            \/ /\ total_loss' = total_loss + loss.val
               /\ UNCHANGED <<correct, total, kept, params>>
               /\ Continue("skip_error")
    /\ UNCHANGED <<phase, cfgVars, epoch, bi, batch, loss, grad, scaler,
                   retVars, bestVars>>

\* the loss check and the accumulation of the batch's statistics, inside
\* the try block like the accumulation of train_one_epoch
EvalAccum ==
    /\ phase = "EvalEpoch" /\ pc = "accum"
    /\ IF loss.kind # "finite"
       THEN /\ Continue("skip_loss")
            /\ UNCHANGED totVars
       ELSE \/ /\ total_loss' = total_loss + loss.val
               /\ \E c \in 0..batch.size : correct' = correct + c
               /\ total' = total + batch.size
               /\ kept' = kept + batch.size
               /\ Continue("evaluated")
            \/ /\ Continue("skip_error")             \* loss.item() raises
               /\ UNCHANGED totVars
            \/ /\ total_loss' = total_loss + loss.val \* a later statement raises
               /\ UNCHANGED <<correct, total, kept>>
               /\ Continue("skip_error")
    /\ UNCHANGED <<phase, cfgVars, epoch, bi, batch, loss, params, grad, scaler,
                   retVars, bestVars>>

EvalReturn ==
    /\ phase = "EvalEpoch" /\ pc = "fetch"
    /\ bi = NumBatches(valN)
    /\ val_ret' = Metrics(total_loss, correct, total, valN)
    /\ LeaveLoop
    /\ phase' = "CheckpointDecision"
    /\ pc' = "record"
    /\ UNCHANGED <<cfgVars, epoch, params, grad, scaler, train_ret, bestVars>>

(***************************************************************************)
(* main: the checkpoint decision of an epoch.                              *)
(***************************************************************************)
\* scheduler.step(); val_losses.append(val_loss); val_accs.append(val_acc).
\* The training metrics go to train_losses / train_accs, which only the plot
\* at the end of main reads: they are not followed further.
CkptRecord ==
    /\ phase = "CheckpointDecision" /\ pc = "record"
    /\ val_losses' = Append(val_losses, val_ret.loss)
    /\ val_accs' = Append(val_accs, val_ret.acc)
    /\ train_ret' = NoRet
    /\ pc' = "acc"
    /\ UNCHANGED <<phase, cfgVars, epoch, bi, batch, loss, outcome, params, grad,
                   scaler, totVars, val_ret, best_acc, best_loss, accSaved, lossSaved>>

\* mutant of CkptAcc: the comparison is not strict
CkptAcc_NonStrict ==
    /\ phase = "CheckpointDecision" /\ pc = "acc"
    /\ IF ~RatLess(val_ret.acc, best_acc)
       THEN /\ best_acc' = val_ret.acc
            /\ accSaved' = epoch + 1
            /\ \/ pc' = "loss" /\ phase' = phase
               \/ pc' = "save:OSError" /\ phase' = "Aborted"
       ELSE /\ pc' = "loss"
            /\ UNCHANGED <<phase, best_acc, accSaved>>
    /\ UNCHANGED <<cfgVars, epoch, bi, batch, loss, outcome, params, grad, scaler,
                   totVars, retVars, best_loss, val_accs, val_losses, lossSaved>>

\* if val_acc > best_acc: best_acc = val_acc; torch.save(...) twice
CkptAcc ==
    /\ phase = "CheckpointDecision" /\ pc = "acc"
    /\ IF RatLess(best_acc, val_ret.acc)
       THEN /\ best_acc' = val_ret.acc
            /\ accSaved' = epoch + 1
            /\ \/ pc' = "loss" /\ phase' = phase
               \/ pc' = "save:OSError" /\ phase' = "Aborted"     \* the write fails
       ELSE /\ pc' = "loss"
            /\ UNCHANGED <<phase, best_acc, accSaved>>
    /\ UNCHANGED <<cfgVars, epoch, bi, batch, loss, outcome, params, grad, scaler,
                   totVars, retVars, best_loss, val_accs, val_losses, lossSaved>>

\* if val_loss < best_loss: best_loss = val_loss; torch.save(...); then the
\* loop head of the next epoch
CkptLoss ==
    /\ phase = "CheckpointDecision" /\ pc = "loss"
    /\ IF RatLess(val_ret.loss, best_loss)
       THEN /\ best_loss' = val_ret.loss
            /\ lossSaved' = epoch + 1
            /\ \/ epoch' = epoch + 1 /\ LoopHead(epoch + 1)
               \/ /\ pc' = "save:OSError" /\ phase' = "Aborted" /\ epoch' = epoch
                  /\ UNCHANGED retVars
       ELSE /\ epoch' = epoch + 1
            /\ LoopHead(epoch + 1)
            /\ UNCHANGED <<best_loss, lossSaved>>
    /\ UNCHANGED <<cfgVars, bi, batch, loss, outcome, params, grad, scaler, totVars,
                   best_acc, val_accs, val_losses, accSaved>>

NextRun ==
    \/ Start
    \/ TrainEnter
    \/ TrainFetch
    \/ TrainValidate
    \/ TrainForward
    \/ TrainLossCheck
    \/ TrainBackward
    \/ TrainClip
    \/ TrainStep
    \/ TrainAccum
    \/ TrainReturn
    \/ EvalEnter
    \/ EvalFetch
    \/ EvalValidate
    \/ EvalForward
    \/ EvalAccum
    \/ EvalReturn
    \/ CkptRecord
    \/ CkptAcc
    \/ CkptLoss

Init == InitRun /\ IdleIngest /\ IdleForward

Next == NextRun

\* the training run
Spec == Init /\ [][Next]_vars

\* no training run is started
NoRun == cfgEpochs = 0 /\ trainN = 1 /\ valN = 1 /\ ~scaler.on

InitIngestion == InitRun /\ NoRun /\ IdleForward /\ InitIngest

NextIngestion ==
    \/ Preprocess /\ UNCHANGED <<runVars, fwdVars>>
    \/ LoadDataset /\ UNCHANGED <<runVars, fwdVars>>
    \/ GetItem /\ UNCHANGED <<runVars, fwdVars>>

\* the ingestion of a data file
IngestSpec == InitIngestion /\ [][NextIngestion]_vars

InitModel == InitRun /\ NoRun /\ IdleIngest /\ InitForward

NextModel ==
    \/ RunForward /\ UNCHANGED <<runVars, ingestVars>>
    \/ RunSwapped /\ UNCHANGED <<runVars, ingestVars>>

\* calls of the model on samples
ForwardSpec == InitModel /\ [][NextModel]_vars


\* every step of main is eventually taken: the process keeps running
FairSpec == Spec /\ WF_vars(Next)

(***************************************************************************)
(* Properties of the training run.                                         *)
(***************************************************************************)
InTrain == phase = "TrainEpoch"

BadInput(b) == b.input \in {"nan", "inf"}

RECURSIVE RatMaxOf(_, _)
RatMaxOf(m, sq) ==
    IF sq = <<>> THEN m
    ELSE RatMaxOf(IF RatLess(m, Head(sq)) THEN Head(sq) ELSE m, Tail(sq))

RECURSIVE RatMinOf(_, _)
RatMinOf(m, sq) ==
    IF sq = <<>> THEN m
    ELSE RatMinOf(IF RatLess(Head(sq), m) THEN Head(sq) ELSE m, Tail(sq))

\* C1: a training batch whose inputs contain NaN or Inf is abandoned at the
\* validation step: it never reaches the forward pass, and abandoning it
\* changes neither the parameters, the loss scale nor the totals, and the
\* loop goes on to fetch the next batch.
C1_BadInputBatchLeavesParameters ==
    /\ [](InTrain /\ BadInput(batch) => pc \in {"validate", "fetch"})
    /\ [][InTrain /\ BadInput(batch) =>
            /\ params' = params
            /\ scaler' = scaler
            /\ grad' = grad \/ pc = "fetch"
            /\ (pc = "validate" =>
                  /\ phase' = "TrainEpoch" /\ pc' = "fetch" /\ bi' = bi
                  /\ <<total_loss, correct, total>>' = <<total_loss, correct, total>>)]_vars

\* a NaN batch was skipped after parameters had been trained, and the loader
\* has another batch to go on with
C1_Witness ==
    /\ InTrain /\ pc = "fetch"
    /\ outcome = "skip_nan"
    /\ bi < NumBatches(trainN)
    /\ params > 0

\* C2 (as claimed): whatever fails in the forward pass, the loss, the
\* backward pass, the clipping or the optimizer step, train_one_epoch goes on
\* to the next batch and returns to main after the last batch of the loader.
C2_EveryFailureIsCaught ==
    [][InTrain =>
         \/ phase' = "TrainEpoch"
         \/ phase' = "EvalEpoch" /\ pc = "fetch" /\ bi = NumBatches(trainN)]_vars

\* C3: when the loss of a training batch is NaN or Inf the batch is dropped
\* at the loss check: backward, clipping and the optimizer step are never
\* reached with such a loss, and the drop changes neither the parameters, the
\* gradients, the loss scale nor the totals.
C3_BadLossBatchLeavesParameters ==
    /\ [](InTrain /\ pc \in {"backward", "clip", "step", "accum"} => loss.kind = "finite")
    /\ [](InTrain /\ loss.kind \in {"nan", "inf"} => pc \in {"losscheck", "fetch"})
    /\ [][InTrain /\ pc = "losscheck" /\ loss.kind # "finite" =>
            /\ phase' = "TrainEpoch" /\ pc' = "fetch"
            /\ params' = params /\ grad' = grad /\ scaler' = scaler
            /\ <<total_loss, correct, total>>' = <<total_loss, correct, total>>]_vars

\* an Inf loss was skipped after parameters had been trained
C3_Witness ==
    /\ InTrain /\ pc = "fetch"
    /\ outcome = "skip_loss" /\ loss.kind = "inf"
    /\ params > 0

\* the phases main may move between in one step
PhaseOrder ==
    /\ phase = "Idle" =>
          \/ phase' = "TrainEpoch" /\ cfgEpochs > 0
          \/ phase' = "Done" /\ cfgEpochs = 0
    /\ phase = "TrainEpoch" =>
          \/ phase' \in {"TrainEpoch", "Aborted"}
          \/ phase' = "EvalEpoch" /\ pc = "fetch" /\ bi = NumBatches(trainN)
    /\ phase = "EvalEpoch" =>
          \/ phase' \in {"EvalEpoch", "Aborted"}
          \/ phase' = "CheckpointDecision" /\ pc = "fetch" /\ bi = NumBatches(valN)
    /\ phase = "CheckpointDecision" =>
          \/ phase' \in {"CheckpointDecision", "Aborted"}
          \/ phase' = "TrainEpoch" /\ epoch' < cfgEpochs
          \/ phase' = "Done" /\ epoch' = cfgEpochs
    /\ phase \in {"Done", "Aborted"} => phase' = phase
    /\ epoch' # epoch =>
          /\ phase = "CheckpointDecision" /\ pc = "loss"
          /\ phase' # "CheckpointDecision"
          /\ epoch' = epoch + 1
    /\ phase = "CheckpointDecision" /\ phase' \in {"TrainEpoch", "Done"} => epoch' = epoch + 1
    /\ cfgEpochs' = cfgEpochs

\* C4: main goes Idle -> (TrainEpoch -> EvalEpoch -> CheckpointDecision) per
\* epoch -> Done: a phase is entered only from its predecessor and only when
\* that one has finished its loader, the epoch counter advances by one per
\* cycle, a cycle is under way only while epoch < epochs, Done is entered only
\* with epoch = epochs, and a run that is not ended by an uncaught exception
\* does reach Done.
C4_EpochDriverOrder ==
    /\ [](phase \in {"TrainEpoch", "EvalEpoch", "CheckpointDecision"} => epoch < cfgEpochs)
    /\ [](phase = "Done" => epoch = cfgEpochs)
    /\ [][PhaseOrder]_vars
    /\ <>(phase \in {"Done", "Aborted"})

\* Done after the full epoch count although every training batch of the run
\* was skipped
C4_Witness ==
    /\ phase = "Done"
    /\ cfgEpochs = MaxEpochs /\ epoch = cfgEpochs
    /\ params = 0
    /\ Len(val_accs) = MaxEpochs


InDecision == phase = "CheckpointDecision"

\* C5: the accuracy decision requests the best-by-accuracy write exactly when
\* val_acc > best_acc, the loss decision requests the best-by-loss write
\* exactly when val_loss < best_loss, neither decision touches the other's
\* best value or checkpoint, the best values start at 0 and +infinity, and
\* between epochs best_acc is the maximum and best_loss the minimum of the
\* validation values recorded so far.
C5_CheckpointDecisions ==
    /\ [](phase = "Idle" => best_acc = <<0, 1>> /\ best_loss = PosInf)
    /\ [](phase \in {"Idle", "TrainEpoch", "EvalEpoch", "Done"} =>
            /\ best_acc = RatMaxOf(<<0, 1>>, val_accs)
            /\ best_loss = RatMinOf(PosInf, val_losses))
    /\ [][InDecision /\ pc = "acc" =>
            /\ (accSaved' # accSaved) = RatLess(best_acc, val_ret.acc)
            /\ accSaved' # accSaved => accSaved' = epoch + 1 /\ best_acc' = val_ret.acc
            /\ accSaved' = accSaved => best_acc' = best_acc
            /\ (best_loss' = best_loss /\ lossSaved' = lossSaved)]_vars
    /\ [][InDecision /\ pc = "loss" =>
            /\ (lossSaved' # lossSaved) = RatLess(val_ret.loss, best_loss)
            /\ lossSaved' # lossSaved => lossSaved' = epoch + 1 /\ best_loss' = val_ret.loss
            /\ lossSaved' = lossSaved => best_loss' = best_loss
            /\ (best_acc' = best_acc /\ accSaved' = accSaved)]_vars
    /\ [][accSaved' # accSaved \/ best_acc' # best_acc => InDecision /\ pc = "acc"]_vars
    /\ [][lossSaved' # lossSaved \/ best_loss' # best_loss => InDecision /\ pc = "loss"]_vars

\* in the second epoch only the loss improved: the best-by-loss write was
\* requested and the best-by-accuracy write was not
C5_Witness ==
    /\ phase = "Done"
    /\ Len(val_accs) = 2
    /\ accSaved = 1
    /\ lossSaved = 2
    /\ RatLess(val_losses[2], val_losses[1])
    /\ ~RatLess(val_accs[1], val_accs[2])

\* C6: the parameters change only in the optimizer step of a training batch
\* that passed the input and the loss checks, one version per step; no step
\* of evaluate or of the checkpoint decision changes them, and evaluate is
\* entered only when train_one_epoch has exhausted its loader.
C6_SingleWriter ==
    /\ [][params' # params =>
            /\ phase = "TrainEpoch" /\ pc = "step" /\ phase' = "TrainEpoch"
            /\ batch.input = "ok" /\ loss.kind = "finite"
            /\ (params' = params + 1)]_vars
    /\ [][(phase = "EvalEpoch" \/ phase = "CheckpointDecision") => (params' = params)]_vars
    /\ [][phase' = "EvalEpoch" /\ phase # "EvalEpoch" =>
            phase = "TrainEpoch" /\ pc = "fetch" /\ bi = NumBatches(trainN)]_vars

\* a validation batch was evaluated in the second epoch, after two optimizer
\* steps
C6_Witness ==
    /\ phase = "EvalEpoch"
    /\ outcome = "evaluated"
    /\ epoch = 1
    /\ params = 2

\* C7 (as claimed): a record whose label text is neither "L" nor "R" is
\* rejected at ingestion: no sample the loaders fetch was built from such a
\* record and carries the label 0 or 1.
C7_InvalidLabelRejected ==
    fetched.idx > 0 /\ csv[fetched.idx].label \notin {"L", "R"} =>
        /\ FloatNe(fetched.item.label, Num(0))
        /\ FloatNe(fetched.item.label, Num(1))

Skips == {"skip_nan", "skip_inf", "skip_input", "skip_loss", "skip_error"}

InLoop == phase \in {"TrainEpoch", "EvalEpoch"}

\* the step that ends an iteration by skipping its batch
SkipStep == InLoop /\ pc # "fetch" /\ phase' = phase /\ pc' = "fetch" /\ outcome' \in Skips

\* the metrics the claim states for a loader over n samples
ClaimedMetrics(n) ==
    [loss |-> Rat(total_loss, Max2(1, NumBatches(n))),
     acc |-> Rat(100 * correct, Max2(1, kept))]

\* what a returned pair must be: two fractions with a denominator, and loss 0
\* and accuracy 0 when every batch of the loader was skipped
ClaimedReturn(ret, n) ==
    /\ ret = ClaimedMetrics(n)
    /\ ret.loss[2] > 0 /\ ret.acc[2] > 0
    /\ kept = 0 => ret.loss = <<0, 1>> /\ ret.acc = <<0, 1>>

\* C11 (as claimed): in train_one_epoch and in evaluate a skipped batch (bad
\* input, bad loss or caught RuntimeError) adds nothing to total_loss, correct
\* or total; the returned loss is total_loss / max(1, batches of the loader),
\* skipped ones included, and the returned accuracy is
\* 100 * correct / max(1, samples of the batches not skipped); no division is
\* by zero; an epoch all of whose batches were skipped returns loss 0 and
\* accuracy 0, and such a validation loss is taken as the new best loss
\* whenever the best loss so far is positive.
C11_SkipAccounting ==
    /\ [][SkipStep =>
            <<total_loss, correct, total>>' = <<total_loss, correct, total>>]_vars
    /\ [](InLoop => total = kept)
    /\ [][phase = "TrainEpoch" /\ phase' = "EvalEpoch" =>
            ClaimedReturn(train_ret', trainN)]_vars
    /\ [][phase = "EvalEpoch" /\ phase' = "CheckpointDecision" =>
            ClaimedReturn(val_ret', valN)]_vars
    /\ [][InDecision /\ pc = "loss" /\ val_ret.loss = <<0, 1>>
            /\ RatLess(<<0, 1>>, best_loss) =>
            /\ best_loss' = <<0, 1>>
            /\ (lossSaved' = epoch + 1)]_vars

(***************************************************************************)
(* Properties of the forward pass.                                         *)
(***************************************************************************)
\* a == b on floats: NaN equals nothing
FloatEq(a, b) == ~FloatNe(a, b)

\* the sum of the scores of the valid slots of one side
ValidTotal(scores, mask) ==
    FloatSum([i \in 1..TopK |-> IF mask[i] THEN scores[i] ELSE Num(0)])

\* the counts 3, 0, 2 and none of any further unit
ExampleCounts(count) ==
    \A u \in Units : count[u] = IF u = 1 THEN 30 ELSE IF u = 3 THEN 20 ELSE 0

\* C9 (as claimed): on both sides mask[i] = (top-k value[i] > 0.1), a slot
\* whose mask is false contributes exactly 0 to its side's total whatever the
\* network computed for it, and the logit is R_total - L_total, each total
\* being the sum of the scores of the valid slots only; the counts 3, 0, 2
\* give the values 3, 2, 0 and the mask true, true, false.
C9_MaskedSlotsContributeZero ==
    out.done =>
        /\ \A i \in 1..TopK :
              /\ out.r.left_mask[i] = (out.r.left_values[i] > MaskThreshold)
              /\ out.r.right_mask[i] = (out.r.right_values[i] > MaskThreshold)
              /\ ~out.r.left_mask[i] => FloatEq(out.r.L[i], Num(0))
              /\ ~out.r.right_mask[i] => FloatEq(out.r.R[i], Num(0))
        /\ FloatEq(out.r.output_logits,
                   FloatSub(ValidTotal(out.r.fcR, out.r.right_mask),
                            ValidTotal(out.r.fcL, out.r.left_mask)))
        /\ ExampleCounts(lc) =>
              /\ out.r.left_values = <<30, 20, 0>>
              /\ out.r.left_mask = <<TRUE, TRUE, FALSE>>

\* C10 (as claimed): with the same parameters, the logit of a sample equals
\* the negated logit of that sample with its two sides swapped.
C10_SwapAntisymmetry ==
    out_swapped.done =>
        FloatEq(out.r.output_logits, FloatNeg(out_swapped.r.output_logits))

====
